---- MODULE Spec2Model ----
(***************************************************************************)
(* EdgeWorker cold-start data generator (data-generator/generator.py).     *)
(*                                                                         *)
(* The model follows the single scheduler thread of run_generator through  *)
(* connect_to_influxdb, generate_metrics_batch / simulate_cold_start_time, *)
(* write_metrics and generate_and_write_metrics.  Every call to the store  *)
(* (InfluxDBClient(...), client.health(), write_api.write) is one step;    *)
(* what the store answers is the environment variable `store`, which may   *)
(* change between any two steps of the scheduler.                          *)
(*                                                                         *)
(* Spec is the whole program.  The write pipeline never reads the          *)
(* regression state and the regression model never reads the pipeline's    *)
(* health fields, so the properties of each are checked on the behaviours  *)
(* of Spec that vary only that part: PipelineSpec (every behaviour of the  *)
(* store, no regression triggered) and RegressionSpec (every random draw   *)
(* and clock reading, store always up).  The arithmetic of                 *)
(* simulate_cold_start_time is checked on ColdStartSpec, which calls the   *)
(* method over and over for a PoP of any tier with every noise value.      *)
(*                                                                         *)
(* The Flask thread that serves /health and /metrics runs beside the       *)
(* scheduler.  A request is two steps, so that steps of the scheduler fall *)
(* between the creation of the iterator over self.regression_state and its *)
(* end.  StatusSpec is the pipeline up to the end of its first cycle (the  *)
(* cycle in which the regression states are created) together with the     *)
(* requests; HealthyStoreSpec is the same with a store that stays up.      *)
(***************************************************************************)
EXTENDS Integers, Sequences, FiniteSets, TLC

\* ------------------------------------------------------------------ bounds
\* Number of generate-and-write cycles the scheduler is followed through.
MaxCycles == 2
\* Size of the PoP catalog and of the function list that are explored.
NumPops == 1
NumFunctions == 2
\* Largest clock value (seconds since start) that is explored.
MaxTime == 2100
\* The ghost counter of non-pass connection attempts saturates here.
NonPassCap == 2

\* --------------------------------------------------------- program constants
\* connect_to_influxdb
max_retries == 10
base_delay == 1
max_delay == 60
\* write_metrics
write_max_retries == 3
\* simulate_cold_start_time: random.randint(300, 1800)
MinDuration == 300
MaxDuration == 1800
\* Latencies are counted in thousandths of a millisecond (round(x, 3)), the
\* multipliers in thousandths.
Milli == 1000
\* self.base_cold_start_time = 3.5, self.regression_factor = 2.5 and the
\* floor max(cold_start_time, 0.5)
base_cold_start_time == 3500
regression_factor == 2500
MinColdStart == 500

\* Python None, for strings and for timestamps.
None == "None"
NoTime == -1

VARIABLES
    store,               \* environment: how the store answers right now
    pc,                  \* position of the scheduler thread
    conn_site,           \* call site the running connect_to_influxdb returns to
    retry_count,         \* connect_to_influxdb: local retry_count
    conn_nonpass,        \* ghost: attempts of the running connect call that ended
                         \*        with a status other than "pass" and no error
    delay,               \* seconds the last scheduler step slept (0: it did not sleep)
    client,              \* self.client (None or a client object)
    connection_status,   \* self.connection_status
    last_error,          \* self.last_error
    total_writes,        \* self.total_writes
    failed_writes,       \* self.failed_writes
    last_successful_write, \* self.last_successful_write
    w_retry,             \* write_metrics: local retry_count
    w_entry,             \* ghost: counters when write_metrics was entered
    write_success,       \* generate_and_write_metrics: local write_success
    cycles,              \* ghost: cycles started
    err_cycles,          \* ghost: cycles ended by the except branch
    regression_state,    \* self.regression_state
    now,                 \* the clock that datetime.utcnow() reads
    gen_i,               \* generate_metrics_batch: index of the next (pop, function)
    points,              \* generate_metrics_batch: the batch under construction
    batch_ts,            \* generate_metrics_batch: local timestamp
    sample,              \* ghost: the last call of simulate_cold_start_time
                         \*        (its pop, its random draws, what it returned)
    req,                 \* the request the Flask thread is serving, with what
                         \*        the handler has read so far
    resp,                \* ghost: the response to the last request that ended
                         \*        after the last step of the scheduler
    ev                   \* ghost: what the last scheduler step did

vars == <<store, pc, conn_site, retry_count, conn_nonpass, delay,
          client, connection_status, last_error, total_writes, failed_writes,
          last_successful_write, w_retry, w_entry, write_success, cycles,
          err_cycles, regression_state, now, gen_i, points, batch_ts, sample,
          req, resp, ev>>

connVars == <<conn_site, retry_count, conn_nonpass>>
healthVars == <<client, connection_status, last_error, total_writes,
                failed_writes, last_successful_write>>
writeVars == <<w_retry, w_entry, write_success>>
genVars == <<regression_state, now, gen_i, points, batch_ts, sample>>
statusVars == <<req, resp>>

\* ------------------------------------------------------------------ store
\* The answers of the external store, as far as the code distinguishes them:
\*   up            connection opens, health() is "pass", write succeeds
\*   write_fail    connection opens, health() is "pass", write raises
\*   unhealthy     connection opens, health() returns a status other than
\*                 "pass" without raising, write raises
\*   health_error  connection opens, health() raises, write raises
\*   down          InfluxDBClient(...) raises, health() raises, write raises
StoreModes == {"up", "write_fail", "unhealthy", "health_error", "down"}

OpenRaises(s) == s = "down"
HealthOf(s) ==
    CASE s \in {"up", "write_fail"} -> "pass"
      [] s = "unhealthy" -> "fail"
      [] OTHER -> "raise"
WriteRaises(s) == s # "up"

Min(a, b) == IF a < b THEN a ELSE b
Max(a, b) == IF a > b THEN a ELSE b

RECURSIVE Pow2(_)
Pow2(n) == IF n = 0 THEN 1 ELSE 2 * Pow2(n - 1)

\* ------------------------------------------------------------- catalogues
\* self.pops (generate_akamai_pops) and the function list of
\* generate_metrics_batch, cut to the explored sizes.
Pops == 1..NumPops
Functions == 1..NumFunctions
BatchSize == NumPops * NumFunctions
PopAt(i) == (i \div NumFunctions) + 1
FunctionAt(i) == (i % NumFunctions) + 1

\* pop['tier'] of the catalogue entry at position p: mad1, bom1, gru1, jnb1
\* and dxb1 are tier2, the other entries tier1.  simulate_cold_start_time
\* also knows tier3.
Tiers == {"tier1", "tier2", "tier3"}
TierOf(p) == IF p \in {10, 15, 16, 17, 18} THEN "tier2" ELSE "tier1"

\* time.sleep(10) of the initial reconnect loop
init_retry_delay == 10

\* ------------------------------------------------------------------ clock
\* What a later datetime.utcnow() can return after one that returned t.
TimeSteps == {0, MinDuration, MaxDuration}
Adv(t) == {t + dt : dt \in {x \in TimeSteps : t + x <= MaxTime}}

\* random.randint(300, 1800): the two ends of the range.
DurationChoices == {MinDuration, MaxDuration}

\* ------------------------------------------------------------------- Init
\* Variant of NewRegressionState: a state is created with a regression of
\* the longest duration already running since the start of the clock.
NewRegressionStateActive ==
    [is_regressed |-> TRUE, regression_start |-> 0,
     regression_duration |-> MaxDuration]

\* The entry simulate_cold_start_time creates for a PoP that has none.
NewRegressionState ==
    [is_regressed |-> FALSE, regression_start |-> NoTime, regression_duration |-> 0]

\* The Flask thread is serving no request; no response since the last step
\* of the scheduler.
NoRequest ==
    [endpoint |-> None, iter_len |-> 0, healthy |-> FALSE,
     connection_status |-> None, total_writes |-> 0, failed_writes |-> 0]
NoResponse == [endpoint |-> None, code |-> 0, status |-> None]

\* No call of simulate_cold_start_time has been made yet.
NoSample ==
    [pop |-> 0, tier |-> None, variation |-> 0, applied |-> FALSE,
     multiplier |-> Milli, value |-> 0]

\* Variant of Init: the generator is constructed as if connected.
InitConnected ==
    /\ store \in StoreModes
    /\ pc = "start"
    /\ conn_site = "none"
    /\ retry_count = 0
    /\ conn_nonpass = 0
    /\ delay = 0
    /\ client = None
    /\ connection_status = "connected"
    /\ last_error = None
    /\ total_writes = 0
    /\ failed_writes = 0
    /\ last_successful_write = NoTime
    /\ w_retry = 0
    /\ w_entry = [tw |-> 0, fw |-> 0]
    /\ write_success = FALSE
    /\ cycles = 0
    /\ err_cycles = 0
    /\ regression_state = [p \in {} |-> NewRegressionState]
    /\ now = 0
    /\ gen_i = 0
    /\ points = << >>
    /\ batch_ts = NoTime
    /\ sample = NoSample
    /\ req = NoRequest
    /\ resp = NoResponse
    /\ ev = "init"

\* The generator after __init__, before run_generator; the store is in any
\* of its modes.
Init ==
    /\ store \in StoreModes
    /\ pc = "start"
    /\ conn_site = "none"
    /\ retry_count = 0
    /\ conn_nonpass = 0
    /\ delay = 0
    /\ client = None
    /\ connection_status = "disconnected"
    /\ last_error = None
    /\ total_writes = 0
    /\ failed_writes = 0
    /\ last_successful_write = NoTime
    /\ w_retry = 0
    /\ w_entry = [tw |-> 0, fw |-> 0]
    /\ write_success = FALSE
    /\ cycles = 0
    /\ err_cycles = 0
    /\ regression_state = [p \in {} |-> NewRegressionState]
    /\ now = 0
    /\ gen_i = 0
    /\ points = << >>
    /\ batch_ts = NoTime
    /\ sample = NoSample
    /\ req = NoRequest
    /\ resp = NoResponse
    /\ ev = "init"

\* ------------------------------------------------------ connect_to_influxdb
\* Entering connect_to_influxdb from call site `site`.
CallConnect(site) ==
    /\ pc' = "conn_try"
    /\ conn_site' = site
    /\ retry_count' = 0
    /\ conn_nonpass' = 0

\* ghost: attempts the running connect call has made so far (at least: the
\* count of non-pass attempts saturates).
ConnAttempts == retry_count + conn_nonpass

\* Variant of ReturnPc: run_generator goes on to the first cycle whatever the
\* initial connect returned.
ReturnPcStartsAnyway(site, ok) ==
    CASE site = "init" -> "ready"
      [] site = "write" -> "write_try"
      [] OTHER -> "idle"

\* Where the scheduler continues when connect_to_influxdb returns `ok`.
ReturnPc(site, ok) ==
    CASE site = "init" -> IF ok THEN "ready" ELSE "init_wait"
      [] site = "write" -> "write_try"
      [] OTHER -> "idle"

ConnectReturn(ok) ==
    /\ pc' = ReturnPc(conn_site, ok)
    /\ conn_site' = "none"
    /\ UNCHANGED retry_count

\* Variant of ConnectPass: True is returned with connection_status as it was.
ConnectPassKeepsStatus ==
    /\ last_error' = None
    /\ ConnectReturn(TRUE)
    /\ ev' = "conn_pass"
    /\ delay' = 0
    /\ UNCHANGED <<conn_nonpass, connection_status>>

\* Variant of ConnectPass: True is returned with last_error as it was.
ConnectPassKeepsError ==
    /\ connection_status' = "connected"
    /\ ConnectReturn(TRUE)
    /\ ev' = "conn_pass"
    /\ delay' = 0
    /\ UNCHANGED <<conn_nonpass, last_error>>

\* health.status == "pass": connected, return True.
ConnectPass ==
    /\ connection_status' = "connected"
    /\ last_error' = None
    /\ ConnectReturn(TRUE)
    /\ ev' = "conn_pass"
    /\ delay' = 0
    /\ UNCHANGED conn_nonpass

\* Variant of ConnectExcept: a status of its own while the retries run.
ConnectExceptRetrying(err) ==
    /\ retry_count' = retry_count + 1
    /\ connection_status' = "retrying"
    /\ last_error' = err
    /\ delay' = Min(base_delay * Pow2(retry_count' - 1), max_delay)
    /\ pc' = IF retry_count' < max_retries THEN "conn_try" ELSE "conn_exhausted"
    /\ ev' = "conn_except"
    /\ UNCHANGED <<conn_site, conn_nonpass>>

\* The except branch: count, record, back off, loop.
ConnectExcept(err) ==
    /\ retry_count' = retry_count + 1
    /\ connection_status' = "disconnected"
    /\ last_error' = err
    /\ delay' = Min(base_delay * Pow2(retry_count' - 1), max_delay)
    /\ pc' = IF retry_count' < max_retries THEN "conn_try" ELSE "conn_exhausted"
    /\ ev' = "conn_except"
    /\ UNCHANGED <<conn_site, conn_nonpass>>

\* health() returned a status other than "pass" and nothing was raised:
\* the try block ends, no branch runs, the while loop tests again.
ConnectNonPass ==
    /\ pc' = "conn_try"
    /\ conn_nonpass' = Min(conn_nonpass + 1, NonPassCap)
    /\ ev' = "conn_nonpass"
    /\ delay' = 0
    /\ UNCHANGED <<retry_count, connection_status, last_error, conn_site>>

\* self.client = InfluxDBClient(...): a new client object replaces the one
\* of the attempt before (two identities are enough to tell them apart).
NewClient(c) == IF c = "client_a" THEN "client_b" ELSE "client_a"

\* Variant of ConnectAttempt: every attempt is counted in failed_writes.
ConnectAttemptCounted ==
    /\ pc = "conn_try"
    /\ retry_count < max_retries
    /\ IF OpenRaises(store)
       THEN /\ ConnectExcept("open_error")
            /\ UNCHANGED client
       ELSE /\ client' = NewClient(client)
            /\ CASE HealthOf(store) = "pass" -> ConnectPass
                 [] HealthOf(store) = "raise" -> ConnectExcept("health_error")
                 [] OTHER -> ConnectNonPass
    /\ resp' = NoResponse
    /\ failed_writes' = failed_writes + 1
    /\ UNCHANGED <<req, store, total_writes, last_successful_write,
                   writeVars, cycles, err_cycles, genVars>>

\* One pass through the body of the while loop.
ConnectAttempt ==
    /\ pc = "conn_try"
    /\ retry_count < max_retries
    /\ IF OpenRaises(store)
       THEN /\ ConnectExcept("open_error")
            /\ UNCHANGED client
       ELSE /\ client' = NewClient(client)
            /\ CASE HealthOf(store) = "pass" -> ConnectPass
                 [] HealthOf(store) = "raise" -> ConnectExcept("health_error")
                 [] OTHER -> ConnectNonPass
    /\ resp' = NoResponse
    /\ UNCHANGED <<req, store, total_writes, failed_writes, last_successful_write,
                   writeVars, cycles, err_cycles, genVars>>

\* Variant of ConnectGiveUp: connection_status is left as the last except
\* branch set it.
ConnectGiveUpNoStatus ==
    /\ pc = "conn_exhausted"
    /\ ConnectReturn(FALSE)
    /\ ev' = "conn_giveup"
    /\ delay' = 0
    /\ resp' = NoResponse
    /\ UNCHANGED <<req, store, conn_nonpass, client, connection_status, last_error,
                   total_writes, failed_writes, last_successful_write, writeVars,
                   cycles, err_cycles, genVars>>

\* After the loop: connection_status = "failed", return False.
ConnectGiveUp ==
    /\ pc = "conn_exhausted"
    /\ connection_status' = "failed"
    /\ ConnectReturn(FALSE)
    /\ ev' = "conn_giveup"
    /\ delay' = 0
    /\ resp' = NoResponse
    /\ UNCHANGED <<req, store, conn_nonpass, client, last_error, total_writes,
                   failed_writes, last_successful_write, writeVars, cycles,
                   err_cycles, genVars>>

\* ------------------------------------------------------------ run_generator
RunGenerator ==
    /\ pc = "start"
    /\ CallConnect("init")
    /\ ev' = "start"
    /\ delay' = 0
    /\ resp' = NoResponse
    /\ UNCHANGED <<req, store, healthVars, writeVars, cycles, err_cycles, genVars>>

\* while True: time.sleep(10); if self.connect_to_influxdb(): break
InitRetry ==
    /\ pc = "init_wait"
    /\ delay' = init_retry_delay
    /\ CallConnect("init")
    /\ ev' = "init_retry"
    /\ resp' = NoResponse
    /\ UNCHANGED <<req, store, healthVars, writeVars, cycles, err_cycles, genVars>>

\* ------------------------------------------------- simulate_cold_start_time
\* Variant of Trigger: the draw is made whether or not a regression is active.
TriggerAlways(rs, draw, t, d) ==
    IF draw
    THEN [is_regressed |-> TRUE, regression_start |-> t, regression_duration |-> d]
    ELSE rs

\* "Randomly trigger regression": draw stands for random.random() < 0.05,
\* t for the datetime.utcnow() read at activation, d for random.randint.
Trigger(rs, draw, t, d) ==
    IF ~rs.is_regressed /\ draw
    THEN [is_regressed |-> TRUE, regression_start |-> t, regression_duration |-> d]
    ELSE rs

\* Variant of Ongoing: the elapsed time is compared with the shortest duration.
OngoingShortest(rs, t) ==
    rs.is_regressed /\ (t - rs.regression_start) < MinDuration

\* time_since_regression < regression_duration, with t the utcnow() read.
Ongoing(rs, t) ==
    rs.is_regressed /\ (t - rs.regression_start) < rs.regression_duration

\* Variant of Recover: the recovery waits until the elapsed time is more
\* than the duration.
RecoverLate(rs, t) ==
    IF rs.is_regressed /\ (t - rs.regression_start) > rs.regression_duration
    THEN [rs EXCEPT !.is_regressed = FALSE]
    ELSE rs

\* "Apply regression if active": the else branch is the recovery.
Recover(rs, t) ==
    IF rs.is_regressed /\ ~Ongoing(rs, t)
    THEN [rs EXCEPT !.is_regressed = FALSE]
    ELSE rs

\* base_time: self.base_cold_start_time, times 1.3 for tier2, 1.6 for tier3.
BaseTime(tier) ==
    CASE tier = "tier2" -> (base_cold_start_time * 13) \div 10
      [] tier = "tier3" -> (base_cold_start_time * 16) \div 10
      [] OTHER -> base_cold_start_time

\* np.random.normal(0, base_time * 0.2): any real; a draw below minus the
\* largest base, one standard deviation either way (tier1), and none.
VariationChoices == {-6000, -702, 0, 914}

\* random.uniform(-0.5, 0.8): both ends and the middle of the factor.
OffsetChoices == {-500, 0, 800}

\* Variant of RegressionMultiplier: the offset alone, around 1.
RegressionMultiplierOffsetOnly(offset) == Milli + offset

\* regression_multiplier = self.regression_factor + random.uniform(-0.5, 0.8)
RegressionMultiplier(offset) == regression_factor + offset

\* round(x, 3) of a latency x given in millionths of a millisecond, in
\* thousandths (none of the explored values lies halfway between two).
Round3(x) == (x + (Milli \div 2)) \div Milli

\* Variant of ColdStartTime: no floor.
ColdStartTimeNoFloor(tier, variation, multiplier) ==
    Round3((BaseTime(tier) + variation) * multiplier)

\* The value simulate_cold_start_time returns: (base_time + variation),
\* times the multiplier (Milli: the regression branch did not run), not
\* below 0.5, rounded to 3 places.
ColdStartTime(tier, variation, multiplier) ==
    Round3(Max((BaseTime(tier) + variation) * multiplier, MinColdStart * Milli))

\* One call simulate_cold_start_time(pop) for a pop with code p and the given
\* tier: variation (drawn from Variations) stands for np.random.normal, draw
\* for random.random() < self.regression_probability, d for random.randint,
\* off (drawn from Offsets, in the regression branch only) for random.uniform
\* and t for the clock.  The call reads the clock when it triggers a
\* regression and again when it computes time_since_regression; the two
\* reads are a few statements apart and give the same second, so a
\* regression triggered in this call has elapsed 0.
SimulateColdStartTime(p, tier, Variations, Offsets) ==
    LET rs0 == IF p \in DOMAIN regression_state
               THEN regression_state[p]
               ELSE NewRegressionState
    IN \E variation \in Variations, draw \in BOOLEAN,
          d \in DurationChoices, t \in Adv(now) :
          LET rs1 == Trigger(rs0, draw, t, d)
          IN \E off \in IF Ongoing(rs1, t) THEN Offsets ELSE {0} :
             LET m == IF Ongoing(rs1, t) THEN RegressionMultiplier(off) ELSE Milli
             IN /\ now' = t
                /\ regression_state' =
                     [q \in DOMAIN regression_state \cup {p} |->
                         IF q = p THEN Recover(rs1, t) ELSE regression_state[q]]
                /\ sample' = [pop |-> p, tier |-> tier, variation |-> variation,
                              applied |-> Ongoing(rs1, t), multiplier |-> m,
                              value |-> ColdStartTime(tier, variation, m)]

\* Variant of Simulate: the point is stamped with the clock at its creation.
SimulateStampsNow(p, f, Variations, Offsets) ==
    /\ SimulateColdStartTime(p, TierOf(p), Variations, Offsets)
    /\ points' = Append(points,
          [pop |-> p, fn |-> f, multiplied |-> sample'.applied,
           value |-> sample'.value, time |-> now'])

\* The body of the inner loop of generate_metrics_batch: the call
\* simulate_cold_start_time(pop) and the Point built from what it returns.
\* The record keeps whether the regression multiplier was applied.
Simulate(p, f, Variations, Offsets) ==
    /\ SimulateColdStartTime(p, TierOf(p), Variations, Offsets)
    /\ points' = Append(points,
          [pop |-> p, fn |-> f, multiplied |-> sample'.applied,
           value |-> sample'.value, time |-> batch_ts])

\* ---------------------------------------------- generate_and_write_metrics
\* Variant of StartCycle: the job also fires while the scheduler thread is
\* inside a reconnect or a write retry.
StartCycleWhileBusy ==
    /\ pc \in {"ready", "idle", "conn_try", "write_recheck"}
    /\ cycles < MaxCycles
    /\ cycles' = cycles + 1
    /\ pc' = "gen"
    /\ gen_i' = 0
    /\ points' = << >>
    /\ \E t \in Adv(now) : now' = t /\ batch_ts' = t
    /\ ev' = "cycle_start"
    /\ delay' = 0
    /\ resp' = NoResponse
    /\ UNCHANGED <<req, store, connVars, healthVars, writeVars, err_cycles,
                   regression_state, sample>>

\* schedule.run_pending() (or the initial call) enters the cycle;
\* generate_metrics_batch reads the batch timestamp.
StartCycle ==
    /\ pc \in {"ready", "idle"}
    /\ cycles < MaxCycles
    /\ cycles' = cycles + 1
    /\ pc' = "gen"
    /\ gen_i' = 0
    /\ points' = << >>
    /\ \E t \in Adv(now) : now' = t /\ batch_ts' = t
    /\ ev' = "cycle_start"
    /\ delay' = 0
    /\ resp' = NoResponse
    /\ UNCHANGED <<req, store, connVars, healthVars, writeVars, err_cycles,
                   regression_state, sample>>

\* One iteration of the nested loops of generate_metrics_batch, with the
\* noise and the offset of the multiplier drawn from the given sets.
GenStepWith(Variations, Offsets) ==
    /\ pc = "gen"
    /\ gen_i < BatchSize
    /\ Simulate(PopAt(gen_i), FunctionAt(gen_i), Variations, Offsets)
    /\ gen_i' = gen_i + 1
    /\ pc' = "gen"
    /\ ev' = "gen"
    /\ delay' = 0
    /\ resp' = NoResponse
    /\ UNCHANGED <<req, store, connVars, healthVars, writeVars, cycles,
                   err_cycles, batch_ts>>

GenStep == GenStepWith(VariationChoices, OffsetChoices)

\* generate_metrics_batch returns; write_metrics(points) is entered.
CallWrite ==
    /\ pc = "gen"
    /\ gen_i = BatchSize
    /\ pc' = "write_try"
    /\ w_retry' = 0
    /\ w_entry' = [tw |-> total_writes, fw |-> failed_writes]
    /\ ev' = "write_call"
    /\ delay' = 0
    /\ resp' = NoResponse
    /\ UNCHANGED <<req, store, connVars, healthVars, write_success, cycles,
                   err_cycles, genVars>>

\* ------------------------------------------------------------ write_metrics
\* Variant of WriteSucceeded: last_error is not cleared.
WriteSucceededKeepsError ==
    /\ total_writes' = total_writes + 1
    /\ last_successful_write' = now
    /\ connection_status' = "connected"
    /\ write_success' = TRUE
    /\ pc' = "post_write"
    /\ ev' = "write_ok"
    /\ delay' = 0
    /\ UNCHANGED <<failed_writes, w_retry, last_error>>

\* Variant of WriteSucceeded: the write is not counted.
WriteSucceededUncounted ==
    /\ last_successful_write' = now
    /\ connection_status' = "connected"
    /\ last_error' = None
    /\ write_success' = TRUE
    /\ pc' = "post_write"
    /\ ev' = "write_ok"
    /\ delay' = 0
    /\ UNCHANGED <<total_writes, failed_writes, w_retry>>

\* Variant of WriteSucceeded: a success clears the count of failures.
WriteSucceededResetsFailures ==
    /\ total_writes' = total_writes + 1
    /\ last_successful_write' = now
    /\ connection_status' = "connected"
    /\ last_error' = None
    /\ write_success' = TRUE
    /\ pc' = "post_write"
    /\ ev' = "write_ok"
    /\ delay' = 0
    /\ failed_writes' = 0
    /\ UNCHANGED w_retry

\* The write went through: count it and return True.
WriteSucceeded ==
    /\ total_writes' = total_writes + 1
    /\ last_successful_write' = now
    /\ connection_status' = "connected"
    /\ last_error' = None
    /\ write_success' = TRUE
    /\ pc' = "post_write"
    /\ ev' = "write_ok"
    /\ delay' = 0
    /\ UNCHANGED <<failed_writes, w_retry>>

\* Variant of WriteExcept: the final failed attempt is not counted.
WriteExceptLastUncounted ==
    /\ w_retry' = w_retry + 1
    /\ last_error' = "write_error"
    /\ IF w_retry' < write_max_retries
       THEN /\ failed_writes' = failed_writes + 1
            /\ delay' = base_delay * Pow2(w_retry' - 1)
            /\ pc' = "write_recheck"
            /\ ev' = "write_fail"
            /\ UNCHANGED <<connection_status, write_success>>
       ELSE /\ connection_status' = "error"
            /\ write_success' = FALSE
            /\ pc' = "post_write"
            /\ ev' = "write_giveup"
            /\ delay' = 0
            /\ UNCHANGED failed_writes
    /\ UNCHANGED <<total_writes, last_successful_write>>

\* Variant of WriteExcept: the same pause after every failed attempt.
WriteExceptFlatDelay ==
    /\ w_retry' = w_retry + 1
    /\ failed_writes' = failed_writes + 1
    /\ last_error' = "write_error"
    /\ IF w_retry' < write_max_retries
       THEN /\ delay' = base_delay
            /\ pc' = "write_recheck"
            /\ ev' = "write_fail"
            /\ UNCHANGED <<connection_status, write_success>>
       ELSE /\ connection_status' = "error"
            /\ write_success' = FALSE
            /\ pc' = "post_write"
            /\ ev' = "write_giveup"
            /\ delay' = 0
    /\ UNCHANGED <<total_writes, last_successful_write>>

\* Variant of WriteExcept: connection_status is left as it is when the
\* attempts are used up.
WriteExceptKeepsStatus ==
    /\ w_retry' = w_retry + 1
    /\ failed_writes' = failed_writes + 1
    /\ last_error' = "write_error"
    /\ IF w_retry' < write_max_retries
       THEN /\ delay' = base_delay * Pow2(w_retry' - 1)
            /\ pc' = "write_recheck"
            /\ ev' = "write_fail"
            /\ UNCHANGED write_success
       ELSE /\ write_success' = FALSE
            /\ pc' = "post_write"
            /\ ev' = "write_giveup"
            /\ delay' = 0
    /\ UNCHANGED <<total_writes, last_successful_write, connection_status>>

\* Variant of WriteExcept: a failed attempt counts as a write too.
WriteExceptCountedAsWrite ==
    /\ w_retry' = w_retry + 1
    /\ failed_writes' = failed_writes + 1
    /\ last_error' = "write_error"
    /\ IF w_retry' < write_max_retries
       THEN /\ delay' = base_delay * Pow2(w_retry' - 1)
            /\ pc' = "write_recheck"
            /\ ev' = "write_fail"
            /\ UNCHANGED <<connection_status, write_success>>
       ELSE /\ connection_status' = "error"
            /\ write_success' = FALSE
            /\ pc' = "post_write"
            /\ ev' = "write_giveup"
            /\ delay' = 0
    /\ total_writes' = total_writes + 1
    /\ UNCHANGED last_successful_write

\* Variant of WriteExcept: a failed attempt forgets the last successful write.
WriteExceptClearsLastWrite ==
    /\ w_retry' = w_retry + 1
    /\ failed_writes' = failed_writes + 1
    /\ last_error' = "write_error"
    /\ IF w_retry' < write_max_retries
       THEN /\ delay' = base_delay * Pow2(w_retry' - 1)
            /\ pc' = "write_recheck"
            /\ ev' = "write_fail"
            /\ UNCHANGED <<connection_status, write_success>>
       ELSE /\ connection_status' = "error"
            /\ write_success' = FALSE
            /\ pc' = "post_write"
            /\ ev' = "write_giveup"
            /\ delay' = 0
    /\ last_successful_write' = NoTime
    /\ UNCHANGED total_writes

\* The except branch of write_metrics.
WriteExcept ==
    /\ w_retry' = w_retry + 1
    /\ failed_writes' = failed_writes + 1
    /\ last_error' = "write_error"
    /\ IF w_retry' < write_max_retries
       THEN /\ delay' = base_delay * Pow2(w_retry' - 1)
            /\ pc' = "write_recheck"
            /\ ev' = "write_fail"
            /\ UNCHANGED <<connection_status, write_success>>
       ELSE /\ connection_status' = "error"
            /\ write_success' = FALSE
            /\ pc' = "post_write"
            /\ ev' = "write_giveup"
            /\ delay' = 0
    /\ UNCHANGED <<total_writes, last_successful_write>>

\* One pass through the body of the while loop of write_metrics.
WriteAttempt ==
    /\ pc = "write_try"
    /\ w_retry < write_max_retries
    /\ IF WriteRaises(store) THEN WriteExcept ELSE WriteSucceeded
    /\ resp' = NoResponse
    /\ UNCHANGED <<req, store, connVars, client, w_entry, cycles, err_cycles, genVars>>

\* Variant of WriteRecheck: reconnect whatever health() answers.
WriteRecheckAlwaysReconnects ==
    /\ pc = "write_recheck"
    /\ CallConnect("write")
    /\ ev' = "recheck_reconnect"
    /\ delay' = 0
    /\ resp' = NoResponse
    /\ UNCHANGED <<req, store, healthVars, writeVars, cycles, err_cycles, genVars>>

\* After the sleep: self.client.health(), reconnect unless it is "pass".
WriteRecheck ==
    /\ pc = "write_recheck"
    /\ IF client # None /\ HealthOf(store) = "pass"
       THEN /\ pc' = "write_try"
            /\ ev' = "recheck_pass"
            /\ UNCHANGED connVars
       ELSE /\ CallConnect("write")
            /\ ev' = "recheck_reconnect"
    /\ delay' = 0
    /\ resp' = NoResponse
    /\ UNCHANGED <<req, store, healthVars, writeVars, cycles, err_cycles, genVars>>

\* Variant of CycleFinish: no reconnect at the end of the try block.
CycleFinishNeverReconnects ==
    /\ pc = "post_write"
    /\ pc' = "idle"
    /\ ev' = "cycle_done"
    /\ delay' = 0
    /\ resp' = NoResponse
    /\ UNCHANGED <<req, store, connVars, healthVars, writeVars, cycles, err_cycles,
                   genVars>>

\* The statistics and the reconnect at the end of the try block.
CycleFinish ==
    /\ pc = "post_write"
    /\ IF ~write_success /\ connection_status # "connected"
       THEN /\ CallConnect("cycle")
            /\ ev' = "cycle_reconnect"
       ELSE /\ pc' = "idle"
            /\ ev' = "cycle_done"
            /\ UNCHANGED connVars
    /\ delay' = 0
    /\ resp' = NoResponse
    /\ UNCHANGED <<req, store, healthVars, writeVars, cycles, err_cycles, genVars>>

\* Variant of CycleError: the error is not counted as a failed write.
CycleErrorUncounted ==
    /\ last_error' = "cycle_error"
    /\ CallConnect("handler")
    /\ UNCHANGED failed_writes

\* except Exception as e: an unexpected error raised in the try block, while
\* the batch is generated or after write_metrics has returned.
CycleError ==
    /\ failed_writes' = failed_writes + 1
    /\ last_error' = "cycle_error"
    /\ CallConnect("handler")

CycleFault ==
    /\ pc \in {"gen", "post_write"}
    /\ CycleError
    /\ err_cycles' = err_cycles + 1
    /\ ev' = "cycle_fault"
    /\ delay' = 0
    /\ resp' = NoResponse
    /\ UNCHANGED <<req, store, client, connection_status, total_writes,
                   last_successful_write, writeVars, cycles, genVars>>

\* ------------------------------------------------ /health and /metrics
\* influx_healthy: self.client.health() is asked if there is a client; an
\* exception counts as not healthy.
InfluxHealthy == client # None /\ HealthOf(store) = "pass"

\* round(n / d, 0) for d > 0.
RoundDiv(n, d) == (2 * n + d) \div (2 * d)

\* success_rate_percent of /health, round(x, 2), in hundredths of a percent:
\* 0 unless total_writes > 0.
HealthSuccessRate(tw, fw) ==
    IF tw > 0 THEN RoundDiv((tw - fw) * 10000, tw) ELSE 0

\* success_rate_percent of /metrics, in hundredths of a percent.
MetricsSuccessRate(tw, fw) == RoundDiv((tw - fw) * 10000, Max(tw, 1))

\* Variant of OverallStatus: the success rate is not looked at.
OverallStatusIgnoresRate(healthy, cs, tw, fw) ==
    IF ~healthy \/ cs = "failed" THEN "unhealthy"
    ELSE IF cs = "error" THEN "degraded"
    ELSE "healthy"

\* overall_status of /health; success_rate < 90 is (tw - fw) / tw * 100 < 90.
OverallStatus(healthy, cs, tw, fw) ==
    IF ~healthy \/ cs = "failed" THEN "unhealthy"
    ELSE IF cs = "error" \/ (tw > 0 /\ (tw - fw) * 100 < 90 * tw) THEN "degraded"
    ELSE "healthy"

\* Variant of StatusCode: always 200.
StatusCodeAlwaysOk(status) == 200

\* status_code = 200 if overall_status == "healthy" else 503
StatusCode(status) == IF status = "healthy" THEN 200 ELSE 503

\* The payload /health builds from the fields as they are now, without
\* timestamp and uptime_seconds.
HealthPayload ==
    [status |-> OverallStatus(InfluxHealthy, connection_status,
                              total_writes, failed_writes),
     connection_status |-> connection_status,
     healthy |-> InfluxHealthy,
     last_error |-> last_error,
     total_writes |-> total_writes,
     failed_writes |-> failed_writes,
     success_rate_percent |-> HealthSuccessRate(total_writes, failed_writes),
     last_successful_write |-> last_successful_write,
     total_monitored |-> NumPops,
     currently_regressed |->
        Cardinality({p \in DOMAIN regression_state :
                        regression_state[p].is_regressed})]

\* The payload /metrics builds from the fields as they are now, without
\* timestamp.
MetricsPayload ==
    LET regressed_pops ==
           {[pop_code |-> p,
             regression_start |-> regression_state[p].regression_start,
             duration_seconds |-> regression_state[p].regression_duration] :
               p \in {q \in DOMAIN regression_state :
                         regression_state[q].is_regressed}}
    IN [total_writes |-> total_writes,
        failed_writes |-> failed_writes,
        success_rate_percent |-> MetricsSuccessRate(total_writes, failed_writes),
        last_successful_write |-> last_successful_write,
        total |-> NumPops,
        healthy |-> NumPops - Cardinality(regressed_pops),
        regressed |-> Cardinality(regressed_pops),
        regressed_details |-> regressed_pops,
        connection_status |-> connection_status,
        last_error |-> last_error]

\* What the steps of the Flask thread leave alone.
ServerFrame ==
    UNCHANGED <<store, pc, connVars, delay, healthVars, writeVars, cycles,
                err_cycles, genVars, ev>>

\* The iterator over self.regression_state raises RuntimeError ("dictionary
\* changed size during iteration") when an entry was added since it was
\* created; the handler's except branch turns that into the 500 response.
IterationRaises == Cardinality(DOMAIN regression_state) # req.iter_len

\* run_generator starts the Flask thread (start_health_server) before its
\* first connect; from then on requests are served.
ServerRunning == pc # "start"

\* health_check up to the creation of the iterator over
\* self.regression_state.values(): the liveness check, the reads of the
\* counters and of connection_status.
HealthBegin ==
    /\ ServerRunning
    /\ req.endpoint = None
    /\ req' = [endpoint |-> "health",
               iter_len |-> Cardinality(DOMAIN regression_state),
               healthy |-> InfluxHealthy,
               connection_status |-> connection_status,
               total_writes |-> total_writes,
               failed_writes |-> failed_writes]
    /\ UNCHANGED resp
    /\ ServerFrame

\* Variant of HealthEnd: the handler notes its outcome in self.last_error.
HealthEndRecordsOutcome ==
    /\ req.endpoint = "health"
    /\ resp' =
          IF IterationRaises
          THEN [endpoint |-> "health", code |-> 500, status |-> "error"]
          ELSE LET status == OverallStatus(req.healthy, req.connection_status,
                                           req.total_writes, req.failed_writes)
               IN [endpoint |-> "health", code |-> StatusCode(status),
                   status |-> status]
    /\ req' = NoRequest
    /\ last_error' = resp'.status
    /\ UNCHANGED <<store, pc, connVars, delay, client, connection_status,
                   total_writes, failed_writes, last_successful_write,
                   writeVars, cycles, err_cycles, genVars, ev>>

\* health_check from there: the sum over the iterator, jsonify, return.
HealthEnd ==
    /\ req.endpoint = "health"
    /\ resp' =
          IF IterationRaises
          THEN [endpoint |-> "health", code |-> 500, status |-> "error"]
          ELSE LET status == OverallStatus(req.healthy, req.connection_status,
                                           req.total_writes, req.failed_writes)
               IN [endpoint |-> "health", code |-> StatusCode(status),
                   status |-> status]
    /\ req' = NoRequest
    /\ ServerFrame

\* metrics_endpoint up to the creation of the iterator over
\* self.regression_state.items().
MetricsBegin ==
    /\ ServerRunning
    /\ req.endpoint = None
    /\ req' = [NoRequest EXCEPT !.endpoint = "metrics",
                                !.iter_len = Cardinality(DOMAIN regression_state)]
    /\ UNCHANGED resp
    /\ ServerFrame

\* metrics_endpoint from there: the loop, the reads of the fields, return.
MetricsEnd ==
    /\ req.endpoint = "metrics"
    /\ resp' =
          IF IterationRaises
          THEN [endpoint |-> "metrics", code |-> 500, status |-> "error"]
          ELSE [endpoint |-> "metrics", code |-> 200, status |-> None]
    /\ req' = NoRequest
    /\ ServerFrame

StatusServer ==
    \/ HealthBegin
    \/ HealthEnd
    \/ MetricsBegin
    \/ MetricsEnd

\* -------------------------------------------------------------- environment
\* The store changes how it answers.
StoreChange ==
    /\ \E s \in StoreModes \ {store} : store' = s
    /\ UNCHANGED <<pc, connVars, delay, healthVars, writeVars, cycles,
                   err_cycles, genVars, statusVars, ev>>

\* ------------------------------------------------------------ specification
Scheduler ==
    \/ RunGenerator
    \/ InitRetry
    \/ ConnectAttempt
    \/ ConnectGiveUp
    \/ StartCycle
    \/ GenStep
    \/ CallWrite
    \/ WriteAttempt
    \/ WriteRecheck
    \/ CycleFinish
    \/ CycleFault

Next == Scheduler \/ StatusServer \/ StoreChange

Spec == Init /\ [][Next]_vars

\* The write pipeline on its own: the behaviours of Spec in which no random
\* draw triggers a regression and the clock reads the same value throughout
\* (the pipeline reads neither), with every behaviour of the store.
NoRegression ==
    /\ now' = now
    /\ \A p \in DOMAIN regression_state' : ~regression_state'[p].is_regressed

\* The iteration of generate_metrics_batch with no noise and the offset of
\* the multiplier 0: neither the regression state nor the pipeline depends
\* on them.
SteadyGenStep == GenStepWith({0}, {0})

QuietStartCycle == StartCycle /\ NoRegression
QuietGenStep == SteadyGenStep /\ NoRegression

PipelineScheduler ==
    \/ RunGenerator
    \/ InitRetry
    \/ ConnectAttempt
    \/ ConnectGiveUp
    \/ QuietStartCycle
    \/ QuietGenStep
    \/ CallWrite
    \/ WriteAttempt
    \/ WriteRecheck
    \/ CycleFinish
    \/ CycleFault

PipelineNext == PipelineScheduler \/ StoreChange

PipelineSpec == Init /\ [][PipelineNext]_vars

\* The scheduler thread keeps running: whenever it can take a step that
\* changes the state it eventually takes one.  Nothing is assumed of the store.
FairPipelineSpec == PipelineSpec /\ WF_vars(PipelineScheduler)

\* The regression model on its own: the behaviours of Spec in which the store
\* answers every call (it is "up" from the start and stays so), with every
\* random draw that starts a regression and every reading of the clock; the
\* noise and the offset of the multiplier, which the regression state does
\* not depend on, are 0.
RegressionNext ==
    \/ RunGenerator
    \/ ConnectAttempt
    \/ StartCycle
    \/ SteadyGenStep
    \/ CallWrite
    \/ WriteAttempt
    \/ CycleFinish
    \/ CycleFault

RegressionInit == Init /\ store = "up"

RegressionSpec == RegressionInit /\ [][RegressionNext]_vars

\* simulate_cold_start_time on its own: the method is called again and again
\* on a new generator, for the first PoP of the catalogue with any tier, with
\* every noise value, draw, offset and reading of the clock.
EvaluateWith(Variations, Offsets) ==
    /\ \E tier \in Tiers :
          SimulateColdStartTime(PopAt(0), tier, Variations, Offsets)
    /\ ev' = "eval"
    /\ resp' = NoResponse
    /\ UNCHANGED <<req, store, pc, connVars, delay, healthVars, writeVars, cycles,
                   err_cycles, gen_i, points, batch_ts>>

Evaluate == EvaluateWith(VariationChoices, OffsetChoices)

ColdStartSpec == RegressionInit /\ [][Evaluate]_vars

\* The calls with no noise and the offset of the multiplier 0, which the
\* regression state does not depend on, under the two provisos of a
\* regression's end: the method keeps being called (cycles keep running),
\* and as long as the explored range of the clock allows, a later call reads
\* a later time.
SteadyEvaluate == EvaluateWith({0}, {0})

FairColdStartSpec ==
    /\ RegressionInit
    /\ [][SteadyEvaluate]_vars
    /\ WF_vars(SteadyEvaluate)
    /\ WF_vars(SteadyEvaluate /\ now' > now)

\* The status surface beside the pipeline, from the start of the process to
\* the end of its first cycle, with every behaviour of the store.
FirstStartCycle == QuietStartCycle /\ cycles = 0

StatusScheduler ==
    \/ RunGenerator
    \/ InitRetry
    \/ ConnectAttempt
    \/ ConnectGiveUp
    \/ FirstStartCycle
    \/ QuietGenStep
    \/ CallWrite
    \/ WriteAttempt
    \/ WriteRecheck
    \/ CycleFinish
    \/ CycleFault

StatusNext == StatusScheduler \/ StatusServer \/ StoreChange

StatusSpec == Init /\ [][StatusNext]_vars

\* The same with a store that is up from the start and stays so.
HealthyStoreNext ==
    \/ RunGenerator
    \/ ConnectAttempt
    \/ FirstStartCycle
    \/ QuietGenStep
    \/ CallWrite
    \/ WriteAttempt
    \/ CycleFinish
    \/ CycleFault
    \/ StatusServer

HealthyStoreSpec == RegressionInit /\ [][HealthyStoreNext]_vars

\* ==================================================================== claims

\* --------------------------------------------------------------------- C1
\* C1: when write_metrics returns False (all 3 attempts failed), failed_writes
\* is exactly 3 above its value at entry and total_writes is unchanged,
\* whatever the re-checks and reconnects between the attempts did.
C1_ThreeFailuresCounted ==
    (pc = "post_write" /\ ~write_success) =>
        /\ failed_writes = w_entry.fw + 3
        /\ total_writes = w_entry.tw
        /\ ev = "write_giveup"

\* The write of the first cycle fails three times, and the last reconnect
\* between its attempts used up all 10 retries (the connect before the first
\* cycle returned True, so it made fewer than 10).
C1_Witness ==
    /\ pc = "post_write"
    /\ ~write_success
    /\ cycles = 1
    /\ retry_count = 10
    /\ failed_writes = 3

\* --------------------------------------------------------------------- C2
\* C2: a write attempt that succeeds at attempt k (k - 1 = w_retry failures
\* before it) ends write_metrics at once with True: total_writes is 1 above
\* and failed_writes k - 1 above the values at entry, last_successful_write is
\* set, connection_status is "connected" and last_error is None.
C2_SuccessAtAttemptK ==
    /\ ev = "write_ok" => (pc = "post_write" /\ write_success)
    /\ (pc = "post_write" /\ write_success) =>
          /\ w_retry \in 0..2
          /\ total_writes = w_entry.tw + 1
          /\ failed_writes = w_entry.fw + w_retry
          /\ last_successful_write # NoTime
          /\ connection_status = "connected"
          /\ last_error = None

\* The write succeeds at the third attempt.
C2_Witness ==
    /\ pc = "post_write"
    /\ write_success
    /\ w_retry = 2
    /\ failed_writes = w_entry.fw + 2

\* --------------------------------------------------------------------- C3
\* C3: one call of connect_to_influxdb makes at most 10 attempts, whichever
\* way each attempt fails.
C3_AtMostTenAttempts == ConnAttempts <= 10

\* --------------------------------------------------------------------- C4
\* The states right after connect_to_influxdb has returned True / False.
C4_ReturnStates ==
    /\ ev = "conn_pass" => (connection_status = "connected" /\ last_error = None)
    /\ ev = "conn_giveup" => (connection_status = "failed" /\ retry_count = 10)

\* C4: connect_to_influxdb returns True exactly at an attempt whose liveness
\* check passes, which ends the call, with connection_status "connected" and
\* last_error None; when it returns False connection_status is "failed".
C4_ConnectReturn ==
    /\ []C4_ReturnStates
    /\ [][(pc = "conn_try" /\ store' = store) =>
            /\ (ev' = "conn_pass") <=> (~OpenRaises(store) /\ HealthOf(store) = "pass")
            /\ (ev' = "conn_pass") => (pc' # "conn_try" /\ conn_site' = "none")
            /\ ev' # "conn_giveup"]_vars
    /\ [][(pc # "conn_try" /\ ev # "conn_pass") => ev' # "conn_pass"]_vars

\* connect returned True after attempts that failed.
C4_Witness ==
    /\ ev = "conn_pass"
    /\ retry_count > 0
    /\ connection_status = "connected"

\* --------------------------------------------------------------------- C5
\* C5: right after every failed store operation last_error is non-empty and
\* describes that failure.
C5_NoErrorDropped ==
    /\ ev = "conn_except" => last_error \in {"open_error", "health_error"}
    /\ ev = "conn_nonpass" => last_error \notin {None, "write_error", "cycle_error"}
    /\ ev \in {"write_fail", "write_giveup"} => last_error = "write_error"
    /\ ev = "cycle_fault" => last_error = "cycle_error"

\* --------------------------------------------------------------------- C6
\* C6: an unexpected error in a cycle is caught at the cycle boundary:
\* failed_writes grows by exactly 1, last_error is set, connect_to_influxdb
\* is entered from the except branch, and when that call returns the
\* scheduler is back in its loop, waiting for the next cycle.
C6_CycleErrorCaught ==
    /\ [][(err_cycles' # err_cycles) =>
            /\ failed_writes' = failed_writes + 1
            /\ total_writes' = total_writes
            /\ last_error' = "cycle_error"
            /\ pc' = "conn_try"
            /\ conn_site' = "handler"]_vars
    /\ [][(conn_site = "handler" /\ conn_site' # "handler") => pc' = "idle"]_vars

\* A cycle runs after a cycle that ended in the except branch.
C6_Witness ==
    /\ err_cycles = 1
    /\ cycles = 2
    /\ pc = "gen"
    /\ failed_writes >= 1

\* --------------------------------------------------------------------- C7
\* A cycle has started and has not finished.
InCycle == cycles > 0 /\ pc # "idle"

\* C7: once the scheduler runs cycles, every started cycle eventually
\* finishes and, while cycles remain to be explored, a later one starts,
\* for every behaviour of the store.
C7_CyclesRecur ==
    /\ [](InCycle => <>(pc = "idle"))
    /\ []((pc = "idle" /\ cycles < MaxCycles) => <>(pc = "gen"))

\* --------------------------------------------------------------------- C8
\* C8: for every PoP that has a state, regression_start is set if and only
\* if is_regressed is true.
C8_StartedIffActive ==
    \A p \in DOMAIN regression_state :
        (regression_state[p].regression_start # NoTime)
            <=> regression_state[p].is_regressed

\* --------------------------------------------------------------------- C9
\* C9: no step changes regression_start or regression_duration of a PoP
\* whose regression is active: a running regression is never started anew.
C9_NoRestartWhileActive ==
    [][\A p \in DOMAIN regression_state :
          regression_state[p].is_regressed =>
             /\ regression_state'[p].regression_start
                   = regression_state[p].regression_start
             /\ regression_state'[p].regression_duration
                   = regression_state[p].regression_duration]_vars

\* Two consecutive records of one PoP are both multiplied: the second
\* evaluation found the regression active.
C9_Witness ==
    \E i \in 1..(Len(points) - 1) :
        /\ points[i].pop = points[i + 1].pop
        /\ points[i].multiplied
        /\ points[i + 1].multiplied

\* -------------------------------------------------------------------- C10
\* C10: a regression that is active goes inactive only in a step in which
\* the clock is at least regression_duration past regression_start.
C10_ActiveForDuration ==
    [][\A p \in DOMAIN regression_state :
          (regression_state[p].is_regressed /\ ~regression_state'[p].is_regressed) =>
             now' - regression_state[p].regression_start
                >= regression_state[p].regression_duration]_vars

\* A regression of the longest duration has recovered.
C10_Witness ==
    \E p \in DOMAIN regression_state :
        /\ ~regression_state[p].is_regressed
        /\ regression_state[p].regression_duration = MaxDuration
        /\ now - regression_state[p].regression_start >= MaxDuration

\* -------------------------------------------------------------------- C11
\* C11: an evaluation of a PoP whose regression is active, made at a clock
\* reading less than regression_duration after regression_start, applies a
\* multiplier between 2.0 and 3.3 (2.5 plus an offset in [-0.5, 0.8]) and
\* leaves the PoP active; made at regression_duration or more after
\* regression_start, it sets is_regressed to false and returns the baseline
\* latency (multiplier 1.0) in that same evaluation.
C11_ActiveEvaluation ==
    [][\A p \in DOMAIN regression_state :
          (regression_state[p].is_regressed /\ ev' = "eval" /\ sample'.pop = p) =>
             IF now' - regression_state[p].regression_start
                   < regression_state[p].regression_duration
             THEN /\ sample'.applied
                  /\ sample'.multiplier >= regression_factor - 500
                  /\ sample'.multiplier <= regression_factor + 800
                  /\ regression_state'[p].is_regressed
                  /\ sample'.value =
                        Round3(Max((BaseTime(sample'.tier) + sample'.variation)
                                      * sample'.multiplier, MinColdStart * Milli))
             ELSE /\ ~regression_state'[p].is_regressed
                  /\ ~sample'.applied
                  /\ sample'.multiplier = Milli
                  /\ sample'.value =
                        Max(BaseTime(sample'.tier) + sample'.variation,
                            MinColdStart)]_vars

\* The evaluation made exactly regression_duration after regression_start
\* found the regression over and returned the baseline latency.
C11_Witness ==
    \E p \in DOMAIN regression_state :
        /\ ev = "eval"
        /\ sample.pop = p
        /\ ~sample.applied
        /\ ~regression_state[p].is_regressed
        /\ regression_state[p].regression_start # NoTime
        /\ now - regression_state[p].regression_start
              = regression_state[p].regression_duration
        /\ sample.value = BaseTime(sample.tier) + sample.variation

\* -------------------------------------------------------------------- C12
\* C12: in a batch handed to write_metrics, the records of one PoP are
\* either all regression-multiplied or all unmultiplied.
C12_OnePopOneMultiplier ==
    (pc \in {"write_try", "post_write"}) =>
        \A i, j \in 1..Len(points) :
            points[i].pop = points[j].pop =>
                points[i].multiplied = points[j].multiplied

\* -------------------------------------------------------------------- C13
\* C13: the batch handed to write_metrics has exactly one record for each
\* (PoP, function) pair, NumPops * NumFunctions records in all, and every
\* record carries the timestamp read at the start of the batch, whether or
\* not regressions are active.
C13_BatchComplete ==
    (pc \in {"write_try", "post_write"}) =>
        /\ Len(points) = NumPops * NumFunctions
        /\ \A p \in Pops, f \in Functions :
              Cardinality({i \in 1..Len(points) :
                              points[i].pop = p /\ points[i].fn = f}) = 1
        /\ \A i \in 1..Len(points) : points[i].time = batch_ts

\* A complete batch with a multiplied record, built while the clock moved on.
C13_Witness ==
    /\ pc = "write_try"
    /\ Len(points) = BatchSize
    /\ now > batch_ts
    /\ \E i \in 1..Len(points) : points[i].multiplied

\* -------------------------------------------------------------------- C14
\* C14: every value simulate_cold_start_time returns is at least 0.5, for
\* every tier, noise and multiplier, and it is exactly 0.5 whenever base plus
\* noise, times the multiplier, lies below 0.5: the floor comes last.
C14_FloorAfterMultiplier ==
    (sample # NoSample) =>
        /\ sample.value >= MinColdStart
        /\ ((BaseTime(sample.tier) + sample.variation) * sample.multiplier
               < MinColdStart * Milli) => sample.value = MinColdStart

\* The noise was below minus the base and the multiplier was applied to the
\* negative sum; the floor gave 0.5.
C14_Witness ==
    /\ sample.applied
    /\ BaseTime(sample.tier) + sample.variation < 0
    /\ sample.tier = "tier3"
    /\ sample.value = MinColdStart

\* -------------------------------------------------------------------- C15
\* The sleeps the backoff of connect_to_influxdb is said to make, in order.
C15_Backoff == <<1, 2, 4, 8, 16, 32, 60, 60, 60, 60>>

\* C15: inside one call of connect_to_influxdb the attempt that is the k-th
\* to fail (k is exact while the count of non-pass attempts has not
\* saturated) is followed by a sleep of min(2^(k-1), 60) seconds, and no
\* sleep of the call is longer than 60.
C15_BackoffAfterFailure ==
    /\ (ev \in {"conn_except", "conn_nonpass"} /\ conn_nonpass < NonPassCap) =>
          /\ ConnAttempts \in 1..max_retries
          /\ delay = C15_Backoff[ConnAttempts]
    /\ ev \in {"conn_except", "conn_nonpass"} => delay <= max_delay

\* -------------------------------------------------------------------- C16
\* C16: one call of write_metrics makes at most 3 attempts; the failed
\* attempt k < 3 is followed by a sleep of 2^(k-1) seconds (1, then 2) and
\* the liveness re-check, the third failed attempt by no sleep.
C16_WriteBackoff ==
    /\ w_retry <= 3
    /\ ev = "write_ok" => w_retry <= 2
    /\ ev = "write_fail" =>
          /\ pc = "write_recheck"
          /\ w_retry \in {1, 2}
          /\ delay = <<1, 2>>[w_retry]
    /\ ev = "write_giveup" => (w_retry = 3 /\ delay = 0)

\* The second attempt has failed and write_metrics has slept 2 seconds.
C16_Witness ==
    /\ ev = "write_fail"
    /\ w_retry = 2
    /\ delay = 2

\* -------------------------------------------------------------------- C17
\* C17: when write_metrics has returned False connection_status is "error",
\* whatever the reconnects between its attempts left there.
C17_ErrorAtReturn ==
    /\ ev = "write_giveup" => (pc = "post_write" /\ ~write_success)
    /\ (pc = "post_write" /\ ~write_success) => connection_status = "error"

\* write_metrics returns False in the first cycle after a reconnect between
\* its attempts used up its 10 retries and set connection_status "failed".
C17_Witness ==
    /\ ev = "write_giveup"
    /\ connection_status = "error"
    /\ cycles = 1
    /\ retry_count = max_retries

\* -------------------------------------------------------------------- C18
\* C18: a failed write attempt that is not the last is followed by a sleep
\* and the liveness re-check; the step of the re-check enters
\* connect_to_influxdb exactly when health() raises or returns a status
\* other than "pass", and otherwise goes to the next write attempt with no
\* connection attempt in between.
C18_RecheckThenReconnect ==
    /\ [](ev = "write_fail" => (pc = "write_recheck" /\ delay > 0))
    /\ [][(pc = "write_recheck" /\ pc' # "write_recheck") =>
            /\ (pc' = "conn_try" /\ conn_site' = "write" /\ retry_count' = 0)
                  <=> HealthOf(store) # "pass"
            /\ HealthOf(store) = "pass" =>
                  /\ pc' = "write_try"
                  /\ conn_site' = conn_site
                  /\ retry_count' = retry_count
                  /\ client' = client
                  /\ connection_status' = connection_status]_vars

\* The re-check after the second failed attempt passed: the third attempt
\* is next and no connect is running.
C18_Witness ==
    /\ ev = "recheck_pass"
    /\ pc = "write_try"
    /\ w_retry = 2
    /\ conn_site = "none"

\* -------------------------------------------------------------------- C19
\* C19: when the try block of a cycle runs to its end, it enters
\* connect_to_influxdb exactly when write_metrics returned False and
\* connection_status is not "connected"; after a write that returned True
\* it goes back to the scheduler loop with no connection attempt.  A cycle
\* whose write returned False never ends without a connect, and no cycle
\* starts while that connect is running.
C19_ReconnectAfterFailedWrite ==
    /\ [][(pc = "post_write" /\ pc' # "post_write" /\ err_cycles' = err_cycles) =>
            /\ (pc' = "conn_try" /\ conn_site' = "cycle" /\ retry_count' = 0)
                  <=> (~write_success /\ connection_status # "connected")
            /\ write_success =>
                  /\ pc' = "idle"
                  /\ conn_site' = conn_site
                  /\ client' = client
                  /\ connection_status' = connection_status]_vars
    /\ [][(pc = "post_write" /\ pc' # "post_write" /\ ~write_success) =>
            pc' = "conn_try"]_vars
    /\ [][cycles' # cycles => (pc \in {"ready", "idle"} /\ conn_site = "none")]_vars

\* The second cycle runs after a first cycle whose write returned False:
\* the connect entered at the end of the first cycle has returned.
C19_Witness ==
    /\ cycles = 2
    /\ pc = "gen"
    /\ ~write_success
    /\ err_cycles = 0
    /\ total_writes = 0
    /\ failed_writes = 3

\* -------------------------------------------------------------------- C20
\* Nothing of a cycle has happened.
C20_NothingGenerated ==
    /\ pc \in {"start", "conn_try", "conn_exhausted", "init_wait", "ready"}
    /\ conn_site \in {"none", "init"}
    /\ points = << >>
    /\ batch_ts = NoTime
    /\ total_writes = 0
    /\ failed_writes = 0

\* C20: until the first cycle starts no batch is generated and no write is
\* attempted; the first cycle starts only from the position reached when
\* the initial connect_to_influxdb, or one of its repetitions, has returned
\* True; when such a call returns False the scheduler sleeps 10 seconds and
\* calls connect_to_influxdb again.
C20_ConnectBeforeFirstCycle ==
    /\ [](cycles = 0 => C20_NothingGenerated)
    /\ [][(cycles = 0 /\ cycles' # 0) => pc = "ready"]_vars
    /\ [][(pc # "ready" /\ pc' = "ready") =>
            (conn_site = "init" /\ ev' = "conn_pass"
                /\ connection_status' = "connected")]_vars
    /\ [][(conn_site = "init" /\ ev' = "conn_giveup") => pc' = "init_wait"]_vars
    /\ [][(pc = "init_wait" /\ pc' # "init_wait") =>
            (delay' = 10 /\ pc' = "conn_try" /\ conn_site' = "init"
                /\ retry_count' = 0)]_vars

\* The initial connect has returned False; the scheduler has slept 10
\* seconds and is in connect_to_influxdb again, no cycle started.
C20_Witness ==
    /\ ev = "init_retry"
    /\ delay = init_retry_delay
    /\ pc = "conn_try"
    /\ connection_status = "failed"
    /\ cycles = 0

\* -------------------------------------------------------------------- C21
\* C21: the scheduler does one thing at a time: a connect is running exactly
\* when the scheduler thread is inside connect_to_influxdb, no connect
\* starts while one is running, a cycle starts only when no cycle and no
\* connect is in flight, and a step that sleeps keeps the thread inside the
\* connect or the write it belongs to, so no cycle starts during a sleep.
C21_Sequential ==
    /\ []((conn_site # "none") <=> (pc \in {"conn_try", "conn_exhausted"}))
    /\ [](delay > 0 => pc \in {"conn_try", "conn_exhausted", "write_recheck"})
    /\ [][conn_site # "none" => conn_site' \in {conn_site, "none"}]_vars
    /\ [][cycles' # cycles =>
            /\ pc \in {"ready", "idle"}
            /\ conn_site = "none"
            /\ cycles' = cycles + 1
            /\ delay' = 0]_vars

\* The reconnect entered at the end of the first cycle is sleeping off a
\* backoff; the second cycle has not started.
C21_Witness ==
    /\ delay > 1
    /\ pc = "conn_try"
    /\ conn_site = "cycle"
    /\ cycles = 1

\* -------------------------------------------------------------------- C22
\* C22: no request to /health or /metrics ends in the internal-error
\* response (500), whatever the scheduler does while it is served.
C22_NoInternalError == resp.code # 500

\* -------------------------------------------------------------------- C23
\* C23: a step of the Flask thread serving /health or /metrics changes no
\* PipelineHealth field and no regression state, and the payload either
\* endpoint builds right after it is the payload it builds right before.
C23_ReadOnly ==
    [][(req' # req) =>
          /\ UNCHANGED <<healthVars, regression_state>>
          /\ HealthPayload' = HealthPayload
          /\ MetricsPayload' = MetricsPayload]_vars

\* /metrics has been served after a write that succeeded at a later attempt.
C23_Witness ==
    /\ resp.endpoint = "metrics"
    /\ resp.code = 200
    /\ total_writes = 1
    /\ failed_writes > 0

\* -------------------------------------------------------------------- C24
\* C24: for the liveness result, connection_status, total_writes and
\* failed_writes a /health request has read, its status is unhealthy when
\* the liveness check failed or connection_status is failed, otherwise
\* degraded when connection_status is error or total_writes > 0 with a
\* success rate below 90 percent, otherwise healthy; its code is 200 when
\* the status is healthy and 503 otherwise.
C24_StatusDerivation ==
    [][(req.endpoint = "health" /\ req'.endpoint = None /\ resp'.code # 500) =>
          LET down == ~req.healthy \/ req.connection_status = "failed"
              low == /\ req.total_writes > 0
                     /\ (req.total_writes - req.failed_writes) * 100
                           < 90 * req.total_writes
              poor == req.connection_status = "error" \/ low
          IN /\ resp'.endpoint = "health"
             /\ resp'.status =
                   (IF down THEN "unhealthy"
                    ELSE IF poor THEN "degraded" ELSE "healthy")
             /\ resp'.code = (IF resp'.status = "healthy" THEN 200 ELSE 503)]_vars

\* /health answered degraded, 503, while connected: the success rate alone.
C24_Witness ==
    /\ resp.endpoint = "health"
    /\ resp.status = "degraded"
    /\ resp.code = 503
    /\ connection_status = "connected"
    /\ total_writes = 1
    /\ pc = "idle"

\* -------------------------------------------------------------------- C25
\* C25: for the counters as they are, /health and /metrics report the same
\* success_rate_percent.
C25_SameSuccessRate ==
    HealthPayload.success_rate_percent = MetricsPayload.success_rate_percent

\* -------------------------------------------------------------------- C26
\* C26: with a store that is up, when the first cycle has ended without an
\* unexpected error total_writes is 1 and failed_writes is 0, and a /health
\* request that reads these counters answers healthy with code 200.
C26_FirstCycleHealthy ==
    /\ []((pc = "idle" /\ cycles = 1 /\ err_cycles = 0) =>
            (total_writes = 1 /\ failed_writes = 0))
    /\ [][(req.endpoint = "health" /\ req'.endpoint = None
              /\ req.total_writes = 1 /\ req.failed_writes = 0) =>
            resp' = [endpoint |-> "health", code |-> 200, status |-> "healthy"]]_vars

\* /health has answered healthy, 200 after the first cycle.
C26_Witness ==
    /\ resp = [endpoint |-> "health", code |-> 200, status |-> "healthy"]
    /\ pc = "idle"
    /\ cycles = 1
    /\ total_writes = 1
    /\ failed_writes = 0

\* -------------------------------------------------------------------- C27
\* C27: when the initial connect_to_influxdb has used up its 10 attempts
\* connection_status is failed and the scheduler goes on to call it again;
\* a /health request that finds connection_status failed, or that asks a
\* store that is down, answers unhealthy with code 503 whenever it builds
\* its payload, and before the first cycle every request builds its payload.
C27_UnreachableStore ==
    /\ []((ev = "conn_giveup" /\ pc = "init_wait") =>
            (connection_status = "failed" /\ retry_count = 10))
    /\ [][(pc = "init_wait" /\ pc' # "init_wait") =>
            (pc' = "conn_try" /\ conn_site' = "init")]_vars
    /\ [][(req.endpoint = None /\ req'.endpoint = "health" /\ store = "down") =>
            ~req'.healthy]_vars
    /\ [][(req.endpoint = "health" /\ req'.endpoint = None /\ resp'.code # 500
              /\ (~req.healthy \/ req.connection_status = "failed")) =>
            resp' = [endpoint |-> "health", code |-> 503, status |-> "unhealthy"]]_vars
    /\ [](cycles = 0 => resp.code # 500)

\* The store was down for the 10 attempts of the initial connect and is
\* still down; /health has answered unhealthy, 503.
C27_Witness ==
    /\ resp = [endpoint |-> "health", code |-> 503, status |-> "unhealthy"]
    /\ store = "down"
    /\ connection_status = "failed"
    /\ pc = "init_wait"
    /\ retry_count = 10
    /\ client = None

\* -------------------------------------------------------------------- C28
\* C28: no step lowers total_writes or failed_writes.
C28_CountersMonotone ==
    [][total_writes' >= total_writes /\ failed_writes' >= failed_writes]_vars

\* A write has succeeded in the second cycle after the three failures of
\* the first: the failures are still counted.
C28_Witness ==
    /\ cycles = 2
    /\ ev = "write_ok"
    /\ total_writes = 1
    /\ failed_writes = 3

\* -------------------------------------------------------------------- C29
\* C29: in every state, inside connect_to_influxdb and write_metrics too,
\* connection_status is one of disconnected, connected, error, failed, and
\* so is the value a /health request has read.
C29_StatusDomain ==
    /\ connection_status \in {"disconnected", "connected", "error", "failed"}
    /\ req.endpoint = "health" =>
          req.connection_status \in {"disconnected", "connected", "error", "failed"}

\* A /health request has read connection_status during a reconnect made
\* between two write attempts.
C29_Witness ==
    /\ req.endpoint = "health"
    /\ req.connection_status = "disconnected"
    /\ pc = "conn_try"
    /\ conn_site = "write"
    /\ retry_count > 0

\* -------------------------------------------------------------------- C30
\* C30: before run_generator has done anything the generator has
\* total_writes 0, failed_writes 0, connection_status disconnected,
\* last_error and last_successful_write None, and no regression state.
C30_FreshGenerator ==
    (pc = "start") =>
        /\ total_writes = 0
        /\ failed_writes = 0
        /\ connection_status = "disconnected"
        /\ last_error = None
        /\ last_successful_write = NoTime
        /\ DOMAIN regression_state = {}
        /\ client = None

\* The constructed generator, before run_generator, with a store that is
\* down.
C30_Witness ==
    /\ pc = "start"
    /\ ev = "init"
    /\ store = "down"
    /\ connection_status = "disconnected"
    /\ req = NoRequest

\* -------------------------------------------------------------------- C31
\* C31: the PoPs that have a regression state are PoPs of the catalogue;
\* there are none before the first cycle; no step removes one; a PoP gets
\* its state in the step that evaluates it for the first time, and that
\* state is the inactive one unless the draw of that same call started a
\* regression at that reading of the clock; when a batch is complete every
\* PoP of the catalogue has a state.
C31_LazyNeverDestroyed ==
    /\ [](DOMAIN regression_state \subseteq Pops)
    /\ [](cycles = 0 => DOMAIN regression_state = {})
    /\ [][DOMAIN regression_state \subseteq DOMAIN regression_state']_vars
    /\ [][\A p \in DOMAIN regression_state' \ DOMAIN regression_state :
            /\ pc = "gen"
            /\ sample'.pop = p
            /\ \/ regression_state'[p] =
                     [is_regressed |-> FALSE, regression_start |-> NoTime,
                      regression_duration |-> 0]
               \/ /\ regression_state'[p].is_regressed
                  /\ regression_state'[p].regression_start = now'
                  /\ regression_state'[p].regression_duration
                        \in MinDuration..MaxDuration]_vars
    /\ [](Len(points) = BatchSize => DOMAIN regression_state = Pops)

\* The first batch is complete, at a clock reading past the start, and a
\* PoP still has the state it was created with.
C31_Witness ==
    /\ cycles = 1
    /\ Len(points) = BatchSize
    /\ now > 0
    /\ DOMAIN regression_state = Pops
    /\ \E p \in Pops : regression_state[p] = NewRegressionState

\* -------------------------------------------------------------------- C32
\* C32: for the counters as they are, the success_rate_percent of /health
\* and that of /metrics (in hundredths of a percent) are both at least 0
\* and at most 100.
C32_RateInRange ==
    /\ HealthPayload.success_rate_percent \in 0..(100 * 100)
    /\ MetricsPayload.success_rate_percent \in 0..(100 * 100)

\* -------------------------------------------------------------------- C33
\* C33: both counters start at 0; total_writes goes up by one in a step in
\* which a write attempt is accepted by the store and changes in no other
\* step; failed_writes goes up by one in a step in which a write attempt
\* raises and in a step in which the except branch of
\* generate_and_write_metrics is entered, and changes in no other step.
C33_CountersCount ==
    /\ [](pc = "start" => (total_writes = 0 /\ failed_writes = 0))
    /\ [][LET attempt == pc = "write_try" /\ pc' # "write_try"
              accepted == attempt /\ ~WriteRaises(store)
              refused == attempt /\ WriteRaises(store)
              aborted == conn_site = "none" /\ conn_site' = "handler"
          IN /\ total_writes' = total_writes + (IF accepted THEN 1 ELSE 0)
             /\ failed_writes' = failed_writes + (IF refused \/ aborted THEN 1 ELSE 0)
             /\ aborted <=> (err_cycles' = err_cycles + 1)
             /\ ~aborted => err_cycles' = err_cycles]_vars

\* After a first cycle ended by an unexpected error, the write of the
\* second cycle has gone through at its third attempt.
C33_Witness ==
    /\ ev = "write_ok"
    /\ cycles = 2
    /\ err_cycles = 1
    /\ w_retry = 2
    /\ total_writes = 1
    /\ failed_writes = 3

\* -------------------------------------------------------------------- C34
\* A cycle or a call of connect_to_influxdb is in progress.
Busy == pc \in {"conn_try", "conn_exhausted", "gen", "write_try",
                "write_recheck", "post_write"}

\* C34: when a cycle has ended connection_status is connected or failed,
\* and whenever the status server is up and connection_status is error or
\* disconnected, a cycle or a connect_to_influxdb is in progress.
C34_SettledAtCycleEnd ==
    /\ pc = "idle" => connection_status \in {"connected", "failed"}
    /\ (ServerRunning /\ connection_status \in {"error", "disconnected"}) => Busy

\* A cycle whose three write attempts failed has ended: the reconnect at its
\* end gave up.
C34_Witness ==
    /\ pc = "idle"
    /\ ev = "conn_giveup"
    /\ connection_status = "failed"
    /\ ~write_success
    /\ failed_writes = 3

\* -------------------------------------------------------------------- C35
\* C35: when a cycle has ended, last_error is None exactly when
\* connection_status is connected.
C35_ErrorIffNotConnected ==
    pc = "idle" => ((last_error = None) <=> (connection_status = "connected"))

\* A cycle ended by an unexpected error after its write had succeeded has
\* ended: the reconnect made by the handler cleared the error.
C35_Witness ==
    /\ pc = "idle"
    /\ ev = "conn_pass"
    /\ err_cycles = 1
    /\ total_writes = 1
    /\ failed_writes = 1
    /\ last_error = None
    /\ connection_status = "connected"

\* -------------------------------------------------------------------- C36
\* C36: no step made inside connect_to_influxdb, the returning one
\* included, changes total_writes, failed_writes, last_successful_write or
\* the regression state of any PoP, whichever call site it was entered from
\* and whatever the store answers.
C36_ConnectFrame ==
    [][(pc \in {"conn_try", "conn_exhausted"}) =>
          UNCHANGED <<total_writes, failed_writes, last_successful_write,
                      regression_state>>]_vars

\* The reconnect at the end of a second cycle, whose writes failed, has
\* given up; the write of the first cycle is still on record.
C36_Witness ==
    /\ ev = "conn_giveup"
    /\ pc = "idle"
    /\ connection_status = "failed"
    /\ total_writes = 1
    /\ last_successful_write # NoTime
    /\ failed_writes = 3
    /\ DOMAIN regression_state = Pops

\* -------------------------------------------------------------------- C37
\* C37: the duration of an active regression is between 300 and 1800
\* seconds; an evaluation of a PoP whose regression is active, made when
\* the clock is at least regression_duration past regression_start, leaves
\* it inactive; and when the method keeps being called and the clock
\* advances, every active regression whose end lies in the explored range
\* of the clock is eventually inactive.
C37_RegressionEnds ==
    /\ [](\A p \in DOMAIN regression_state :
            regression_state[p].is_regressed =>
               regression_state[p].regression_duration \in MinDuration..MaxDuration)
    /\ [][\A p \in DOMAIN regression_state :
            (/\ regression_state[p].is_regressed
             /\ now' - regression_state[p].regression_start
                   >= regression_state[p].regression_duration) =>
               ~regression_state'[p].is_regressed]_vars
    /\ \A p \in Pops :
          [](( /\ p \in DOMAIN regression_state
               /\ regression_state[p].is_regressed
               /\ regression_state[p].regression_start
                     + regression_state[p].regression_duration <= MaxTime)
             => <>(p \in DOMAIN regression_state
                     /\ ~regression_state[p].is_regressed))

\* A regression of the shortest duration has ended at the evaluation made
\* exactly regression_duration after its start.
C37_Witness ==
    \E p \in DOMAIN regression_state :
        /\ sample.pop = p
        /\ ~sample.applied
        /\ ~regression_state[p].is_regressed
        /\ regression_state[p].regression_duration = MinDuration
        /\ regression_state[p].regression_start > 0
        /\ now = regression_state[p].regression_start + MinDuration

\* -------------------------------------------------------------------- C38
\* C38: last_successful_write is set exactly when total_writes > 0, and no
\* step puts it back to None once it is set.
C38_LastWriteIffWritten ==
    /\ []((last_successful_write # NoTime) <=> (total_writes > 0))
    /\ [][last_successful_write # NoTime => last_successful_write' # NoTime]_vars

\* After the write of the first cycle the three attempts of the second
\* failed, and an attempt of the reconnect at its end has failed too: the
\* time of the first write is still there.
C38_Witness ==
    /\ last_successful_write # NoTime
    /\ total_writes = 1
    /\ cycles = 2
    /\ connection_status = "disconnected"
    /\ conn_site = "cycle"
    /\ retry_count > 0
    /\ failed_writes = 3

====
